---- MODULE Spec2Model ----
(***************************************************************************)
(* A model of SkylinkJS's signaling socket (SkylinkSocket: connection,     *)
(* reconnection with port / transport fallback, outbound message batching) *)
(* and of the Peer wrapper around RTCPeerConnection.                       *)
(*                                                                         *)
(* Every operation of the source is an operator from the object's fields   *)
(* (a record) to the fields after the call, so that a method that calls    *)
(* another one (_reconnect calls disconnect and connect) is the            *)
(* composition the code performs.  An action applies one operator to the   *)
(* variables.  Message payloads (sdp, userData, mid, rid) are left out: a  *)
(* message is its submission number and its type.                          *)
(***************************************************************************)
EXTENDS Integers, Sequences, FiniteSets, TLC

(***************************************************************************)
(* Bounds of the model.                                                    *)
(***************************************************************************)
\* Longest configured port list (specification Spec).
MaxPorts == 3
\* Longest configured port list where connect() is called repeatedly (ReuseSpec, SendSpec).
MaxReusePorts == 1
\* How many times the application calls connect() (ReuseSpec, SendSpec).
MaxUserConnects == 2
\* How many times a socket.io connection is established.
MaxOpens == 1
\* How many messages of each kind the application submits (SendSpec).
MaxSends == 1
\* How many clock steps pass (SendSpec).
MaxTicks == 2
\* How many must-queue messages the application submits (BatchSpec).
MaxMsgs == 21
\* How many other messages the application submits (BatchSpec).
MaxDirect == 1
\* How many clock steps pass (BatchSpec).
MaxBatchTicks == 4
\* The largest burst of must-queue messages (BurstSpec).
MaxBurst == 33
\* How many clock steps pass (BurstSpec).
MaxBurstTicks == 6
\* RTCPeerConnection objects one Peer binds (PeerSpec).
MaxPeerConnections == 2
\* onicecandidate events fired on the bound objects (PeerSpec).
MaxCandidates == 3
\* Calls of Peer.setRemoteDescription (PeerSpec).
MaxRemoteCalls == 2
\* Calls of Peer.createOffer, createAnswer and setLocalDescription (NegotiationSpec).
MaxNegotiationCalls == 2
\* ondatachannel events fired on the bound objects (ChannelSpec).
MaxChannels == 3
\* createDataChannel calls made on the Peer
MaxCreated == 2
\* SkylinkSocket objects constructed
MaxInstances == 2
\* must-queue messages submitted while another object is constructed
MaxInstanceSends == 2

\* io.connect() calls the model follows: a full campaign and two more (Spec), a full
\* campaign and one per connect() of the application (ReuseSpec, SendSpec).
MaxSockets == 2 * MaxPorts + 2
MaxReuseSockets == 2 * MaxReusePorts + MaxUserConnects

(***************************************************************************)
(* Program constants.                                                      *)
(***************************************************************************)
\* _connection.retries.max, handed to socket.io as reconnectionAttempts.
retriesMax == 4
\* _messaging.interval (ms).
interval == 1000
\* _messaging.throughput.
throughput == 16
\* What ports[protocol][0] evaluates to on an empty list (JavaScript's undefined).
undefined == -1
\* null where an index (from 1) of an object is expected
null == 0
\* The IDs of the remote peers the room can hold.
PeerIds == {"peerA", "peerB", "peerC"}
\* The labels of the data channels a remote peer opens other than "main".
TransferLabels == {"transferA", "transferB"}

typesToQueue ==
  <<"stream", "updateUserEvent", "roomLockEvent", "muteAudioEvent", "muteVideoEvent", "public">>

defaults ==
  [ports |-> [http |-> <<6001, 80, 3000>>, https |-> <<443, 3443>>]]

\* _transports: the names of the two transport kinds.
Transports == {"WebSocket", "Polling"}

\* The clock advances by half an interval at a time.
ClockStep == interval \div 2

\* The message types the application submits: one of typesToQueue, one not.
SendTypes == {"muteAudioEvent", "offer"}

(***************************************************************************)
(* JavaScript array helpers (0-based, as the code uses them).              *)
(***************************************************************************)
\* Array.prototype.indexOf: the first index holding x, -1 when there is none.
IndexOf(list, x) ==
  IF \E i \in 1..Len(list) : list[i] = x
  THEN (CHOOSE i \in 1..Len(list) : list[i] = x /\ \A j \in 1..(i - 1) : list[j] # x) - 1
  ELSE -1

\* list[i]: undefined outside the array.
At(list, i) == IF (i + 1) \in 1..Len(list) THEN list[i + 1] ELSE undefined

\* The configured port lists: k distinct ports, counted up from the protocol's usual one.
PortList(proto, k) == [i \in 1..k |-> (IF proto = "https" THEN 443 ELSE 80) + (i - 1)]

VARIABLES
  \* environment and configuration
  hasWebSocket,       \* window.WebSocket is defined
  protocol,           \* self.protocol: "http" or "https"
  ports,              \* self.ports
  configured,         \* the port list of the protocol as configured (never changes)
  instances,          \* SkylinkSocket objects constructed so far
  \* SkylinkSocket fields
  port,               \* _connection.port
  transport,          \* _connection.transport
  transportFallback,  \* _connection.transportFallback
  retriesCurrent,     \* _connection.retries.current
  connected,          \* self.connected
  dead,               \* self.dead
  io,                 \* the socket.io-client objects made so far; self._socket is the last
  opens,              \* connections socket.io has established so far
  \* _messaging fields and the clock
  queue,              \* _messaging.queue
  timestamp,          \* _messaging.timestamp (0 for null: null - x coerces to 0)
  timer,              \* _messaging.timer is a handle (TRUE) or null (FALSE)
  due,                \* when the setTimeout callback runs; 0: none is pending
  now,                \* Date.now()
  nMsg,               \* must-queue messages submitted so far
  nDirect,            \* other messages submitted so far
  \* what the last step did
  emitted,            \* the events _trigger fired, in order
  handed,             \* what the delivery function fn was called with, in order
  written,            \* what was passed to _socket.send, in order
  \* history
  tried,              \* <<transport, port>> of every io.connect(), in order
  userConnects,       \* connect() calls made by the application
  wasReset,           \* reset() was called after construction
  terminalErrors,     \* connectError(-3) events fired so far
  \* the Peer object (com) and the RTCPeerConnection objects it bound
  RTCPeerConnection,  \* com.RTCPeerConnection: null, or the index of an object in pcs
  pcs,                \* the RTCPeerConnection objects passed to com.bind, in order
  nCand,              \* onicecandidate events fired so far
  remoteCalls,        \* calls of com.setRemoteDescription so far
  thrown,             \* the last Peer call ended in a TypeError
  readyState,         \* com.readyState
  invoked,            \* the negotiation methods of com called so far, in order
  pending,            \* the primitive calls whose callbacks have not run yet
  datachannels,       \* com.datachannels: main, and transfers by label (null: none);
                      \* replaced: the object put in place of the transfers mapping;
                      \* props: what else was set on com.datachannels itself, by key
  nChan,              \* ondatachannel events fired so far
  chanLabels,         \* the labels of the channels of these events, in order
  created,            \* the transferId of every com.createDataChannel call, in order
  \* the Skylink object and a getPeerInfo call on it
  user,               \* this._user: null, or an object with the field sid
  peerInformations,   \* this._peerInformations: what is stored under each peer ID
  peerId,             \* the argument of the getPeerInfo call
  returned            \* what the call returned (kind "none": not called yet)

connVars ==
  <<protocol, ports, port, transport, transportFallback, retriesCurrent,
    connected, dead, io, emitted, tried, terminalErrors>>
msgVars == <<queue, timestamp, timer, due, nMsg, nDirect, handed, written>>
envVars == <<hasWebSocket, configured, instances>>
iceVars == <<pcs, nCand>>
negotiationVars == <<remoteCalls, readyState, invoked, pending>>
channelVars == <<datachannels, nChan, chanLabels, created>>
peerVars == <<RTCPeerConnection, thrown, iceVars, negotiationVars, channelVars>>
infoVars == <<user, peerInformations, peerId, returned>>
vars == <<connVars, msgVars, envVars, peerVars, infoVars, now, opens, userConnects, wasReset>>

(***************************************************************************)
(* The object's fields as one record, and back.                            *)
(***************************************************************************)
Self ==
  [protocol |-> protocol, ports |-> ports, port |-> port, transport |-> transport,
   transportFallback |-> transportFallback, retriesCurrent |-> retriesCurrent,
   connected |-> connected, dead |-> dead, io |-> io,
   emitted |-> <<>>, tried |-> tried, terminalErrors |-> terminalErrors,
   queue |-> queue, timestamp |-> timestamp, timer |-> timer, due |-> due,
   nMsg |-> nMsg, nDirect |-> nDirect, handed |-> <<>>, written |-> <<>>]

Becomes(s) ==
  /\ protocol' = s.protocol
  /\ ports' = s.ports
  /\ port' = s.port
  /\ transport' = s.transport
  /\ transportFallback' = s.transportFallback
  /\ retriesCurrent' = s.retriesCurrent
  /\ connected' = s.connected
  /\ dead' = s.dead
  /\ io' = s.io
  /\ emitted' = s.emitted
  /\ tried' = s.tried
  /\ terminalErrors' = s.terminalErrors
  /\ queue' = s.queue
  /\ timestamp' = s.timestamp
  /\ timer' = s.timer
  /\ due' = s.due
  /\ nMsg' = s.nMsg
  /\ nDirect' = s.nDirect
  /\ handed' = s.handed
  /\ written' = s.written

\* An event fired by _trigger: its name, its first argument when it is a number
\* (the connectError code, 0 otherwise) and its first argument when it is a string.
Ev(name, code, info) == [name |-> name, code |-> code, info |-> info]

_trigger(s, e) ==
  [s EXCEPT !.emitted = Append(@, e),
            !.terminalErrors = IF e.name = "connectError" /\ e.code = -3 THEN @ + 1 ELSE @]

\* A socket.io-client object: where it is in its life, the reconnection attempts it
\* has started, and whether _listenToEvents' handlers are subscribed to it.
NewSocket == [phase |-> "opening", tries |-> 0, on |-> TRUE]

\* self._socket: the number of the current socket, 0 before the first connect().
_socket(s) == Len(s.io)

(***************************************************************************)
(* SkylinkSocket.prototype.connect                                         *)
(***************************************************************************)
connect(s) ==
  LET p == IF s.port = 0 THEN At(s.ports[s.protocol], 0) ELSE s.port
  IN [s EXCEPT !.port = p,
               !.connected = FALSE,
               !.dead = FALSE,
               !.io = Append(@, NewSocket),
               !.tried = Append(@, <<s.transport, p>>)]

(***************************************************************************)
(* SkylinkSocket.prototype.disconnect: _socket.disconnect() closes the     *)
(* socket; socket.io fires 'disconnect' at once when it was connected, and *)
(* the handler (when still subscribed) clears connected.                   *)
(***************************************************************************)
onDisconnect(s) == _trigger([s EXCEPT !.connected = FALSE], Ev("disconnect", 0, ""))

disconnect(s) ==
  IF _socket(s) = 0 THEN s
  ELSE LET cur == s.io[_socket(s)]
           closed == [s EXCEPT !.io = [@ EXCEPT ![_socket(s)] =
                        [cur EXCEPT !.phase = IF cur.phase = "failed" THEN "failed" ELSE "closed",
                                    !.tries = 0]]]
       IN IF cur.phase = "open" /\ cur.on THEN onDisconnect(closed) ELSE closed

(***************************************************************************)
(* SkylinkSocket.prototype.reset                                           *)
(***************************************************************************)
\* reset() as it would be if it also cleared the dead flag.
resetClearsDead(s, webSocket) ==
  [s EXCEPT !.transport = IF webSocket THEN "WebSocket" ELSE "Polling",
            !.transportFallback = FALSE,
            !.port = 0,
            !.retriesCurrent = 0,
            !.dead = FALSE]

reset(s, webSocket) ==
  [s EXCEPT !.transport = IF webSocket THEN "WebSocket" ELSE "Polling",
            !.transportFallback = FALSE,
            !.port = 0,
            !.retriesCurrent = 0]

(***************************************************************************)
(* SkylinkSocket.prototype._reconnect                                      *)
(***************************************************************************)
removeAllListeners(s) ==
  IF _socket(s) = 0 THEN s ELSE [s EXCEPT !.io = [@ EXCEPT ![_socket(s)] = [@ EXCEPT !.on = FALSE]]]

fallbackTypeOf(s, index) ==
  IF index > 0 \/ s.transportFallback
  THEN IF s.protocol = "http"
       THEN IF s.transport = "WebSocket" THEN "fallbackPortNonSSL" ELSE "fallbackLongPollingNonSSL"
       ELSE IF s.transport = "WebSocket" THEN "fallbackPortSSL" ELSE "fallbackLongPollingSSL"
  ELSE "nonfallback"

retry(s, index) ==
  connect(_trigger(s, Ev("connectRetry", s.retriesCurrent, fallbackTypeOf(s, index))))

\* _reconnect() as it would be without the return that ends the terminal branch.
_reconnectNoReturn(s0) ==
  LET s == IF _socket(s0) = 0 THEN s0 ELSE disconnect(removeAllListeners(s0))
      list == s.ports[s.protocol]
      index == IndexOf(list, s.port)
  IN IF index = -1
     THEN LET withDefaults ==
                [s EXCEPT !.ports =
                   [https |-> IF Len(s.ports.https) = 0 THEN defaults.ports.https ELSE s.ports.https,
                    http |-> IF Len(s.ports.http) = 0 THEN defaults.ports.http ELSE s.ports.http]]
          IN retry(withDefaults, 0)
     ELSE IF index < Len(list) - 1
     THEN retry([s EXCEPT !.port = At(list, index + 1)], index)
     ELSE IF s.transport = "WebSocket"
     THEN retry([s EXCEPT !.transport = "Polling",
                          !.port = At(list, 0),
                          !.transportFallback = TRUE], index)
     ELSE retry(_trigger([s EXCEPT !.dead = TRUE], Ev("connectError", -3, s.transport)), index)

_reconnect(s0) ==
  LET s == IF _socket(s0) = 0 THEN s0 ELSE disconnect(removeAllListeners(s0))
      list == s.ports[s.protocol]
      index == IndexOf(list, s.port)
  IN IF index = -1
     THEN LET withDefaults ==
                [s EXCEPT !.ports =
                   [https |-> IF Len(s.ports.https) = 0 THEN defaults.ports.https ELSE s.ports.https,
                    http |-> IF Len(s.ports.http) = 0 THEN defaults.ports.http ELSE s.ports.http]]
          IN retry(withDefaults, 0)
     ELSE IF index < Len(list) - 1
     THEN retry([s EXCEPT !.port = At(list, index + 1)], index)
     ELSE IF s.transport = "WebSocket"
     THEN retry([s EXCEPT !.transport = "Polling",
                          !.port = At(list, 0),
                          !.transportFallback = TRUE], index)
     ELSE _trigger([s EXCEPT !.dead = TRUE], Ev("connectError", -3, s.transport))

(***************************************************************************)
(* SkylinkSocket.prototype.send: the delivery function fn it hands to      *)
(* _limitMessageInterval.                                                  *)
(***************************************************************************)
\* The delivery function as it would be without the test of self.connected.
fnNoConnectedCheck(s, groupMessage) ==
  LET h == [s EXCEPT !.handed = Append(@, groupMessage)]
  IN IF _socket(h) = 0 THEN h
     ELSE [h EXCEPT !.written = Append(@, groupMessage)]

fn(s, groupMessage) ==
  LET h == [s EXCEPT !.handed = Append(@, groupMessage)]
  IN IF _socket(h) = 0 THEN h
     ELSE IF ~h.connected THEN h
     ELSE [h EXCEPT !.written = Append(@, groupMessage)]

Group(lists) == [type |-> "group", lists |-> lists]

InTypesToQueue(type) == \E i \in 1..Len(typesToQueue) : typesToQueue[i] = type

(***************************************************************************)
(* _limitMessageInterval's delayFn, run by the timer at time t.            *)
(***************************************************************************)
\* delayFn as it would be if it sent the whole queue whatever its length.
delayFnNoCap(s, t) ==
  IF Len(s.queue) > 0
  THEN [fn(s, Group(s.queue)) EXCEPT !.queue = <<>>,
                                     !.timer = FALSE,
                                     !.due = 0,
                                     !.timestamp = t]
  ELSE s

\* delayFn as it would be if it did not set the timer again for the rest of the queue.
delayFnNoReschedule(s, t) ==
  IF Len(s.queue) > 0
  THEN IF Len(s.queue) < throughput
       THEN [fn(s, Group(s.queue)) EXCEPT !.queue = <<>>,
                                          !.timer = FALSE,
                                          !.due = 0,
                                          !.timestamp = t]
       ELSE [fn(s, Group(SubSeq(s.queue, 1, throughput))) EXCEPT
                                          !.queue = SubSeq(s.queue, throughput + 1, Len(s.queue)),
                                          !.timer = FALSE,
                                          !.due = 0,
                                          !.timestamp = t]
  ELSE s

delayFn(s, t) ==
  IF Len(s.queue) > 0
  THEN IF Len(s.queue) < throughput
       THEN [fn(s, Group(s.queue)) EXCEPT !.queue = <<>>,
                                          !.timer = FALSE,
                                          !.due = 0,
                                          !.timestamp = t]
       ELSE [fn(s, Group(SubSeq(s.queue, 1, throughput))) EXCEPT
                                          !.queue = SubSeq(s.queue, throughput + 1, Len(s.queue)),
                                          !.timer = TRUE,
                                          !.due = t + interval,
                                          !.timestamp = t]
  ELSE s

(***************************************************************************)
(* SkylinkSocket.prototype._limitMessageInterval, called at time t.        *)
(***************************************************************************)
\* _limitMessageInterval as it would be if it still queued at an elapsed time of
\* exactly the interval.
_limitMessageIntervalInclusive(s, message, t) ==
  IF t - s.timestamp <= interval /\ InTypesToQueue(message.type)
  THEN LET q == [s EXCEPT !.queue = Append(@, message)]
       IN IF ~q.timer
          THEN [q EXCEPT !.timer = TRUE, !.due = t + (interval - (t - q.timestamp))]
          ELSE q
  ELSE [fn(s, message) EXCEPT !.timestamp = t]

\* _limitMessageInterval as it would be if it queued whatever the message type.
_limitMessageIntervalAnyType(s, message, t) ==
  IF t - s.timestamp < interval
  THEN LET q == [s EXCEPT !.queue = Append(@, message)]
       IN IF ~q.timer
          THEN [q EXCEPT !.timer = TRUE, !.due = t + (interval - (t - q.timestamp))]
          ELSE q
  ELSE [fn(s, message) EXCEPT !.timestamp = t]

_limitMessageInterval(s, message, t) ==
  IF t - s.timestamp < interval /\ InTypesToQueue(message.type)
  THEN LET q == [s EXCEPT !.queue = Append(@, message)]
       IN IF ~q.timer
          THEN [q EXCEPT !.timer = TRUE, !.due = t + (interval - (t - q.timestamp))]
          ELSE q
  ELSE [fn(s, message) EXCEPT !.timestamp = t]

send(s, message, t) == _limitMessageInterval(s, message, t)

(***************************************************************************)
(* _listenToEvents: the handlers subscribed to a socket.io-client object.  *)
(***************************************************************************)
\* The connect_error handler as it would be if it reported every connect error.
onConnectErrorAnyCount(s) == _trigger(s, Ev("connectError", 0, s.transport))

onConnectError(s) ==
  IF s.retriesCurrent = 0 THEN _trigger(s, Ev("connectError", 0, s.transport)) ELSE s

onReconnectAttempt(s) ==
  _trigger([s EXCEPT !.retriesCurrent = @ + 1], Ev("connectError", -4, s.transport))

onReconnectError(s) == _trigger(s, Ev("connectError", -1, s.transport))

onReconnectFailed(s) == _reconnect(_trigger(s, Ev("connectError", -1, s.transport)))

connectHandler(s) == _trigger([s EXCEPT !.connected = TRUE], Ev("connect", 0, ""))

(***************************************************************************)
(* The initial state: the constructor has run reset().  Both protocols'    *)
(* port lists are configured with k ports, k up to maxK.                   *)
(***************************************************************************)
Protocols == {"http", "https"}

\* Skylink.prototype._user and _peerInformations as the prototype declares them.
InfoFresh ==
  /\ user = [isNull |-> TRUE, sid |-> ""]
  /\ peerInformations = [id \in PeerIds |-> "absent"]
  /\ peerId = [type |-> "undefined", value |-> ""]
  /\ returned = [kind |-> "none", of |-> ""]

ObjectsInit(maxK) ==
  /\ hasWebSocket \in BOOLEAN
  /\ protocol \in Protocols
  /\ \E k \in 0..maxK :
        ports = [http |-> PortList("http", k), https |-> PortList("https", k)]
  /\ configured = ports[protocol]
  /\ instances = 1
  /\ port = 0
  /\ transport = IF hasWebSocket THEN "WebSocket" ELSE "Polling"
  /\ transportFallback = FALSE
  /\ retriesCurrent = 0
  /\ connected = FALSE
  /\ dead = FALSE
  /\ io = <<>>
  /\ opens = 0
  /\ queue = <<>>
  /\ timestamp = 0
  /\ timer = FALSE
  /\ due = 0
  /\ now = interval
  /\ nMsg = 0
  /\ nDirect = 0
  /\ emitted = <<>>
  /\ handed = <<>>
  /\ written = <<>>
  /\ tried = <<>>
  /\ userConnects = 0
  /\ wasReset = FALSE
  /\ terminalErrors = 0
  /\ RTCPeerConnection = null
  /\ pcs = <<>>
  /\ nCand = 0
  /\ remoteCalls = 0
  /\ thrown = FALSE
  /\ readyState = "new"
  /\ invoked = <<>>
  /\ pending = <<>>
  /\ datachannels = [main |-> null, transfers |-> [label \in TransferLabels |-> null],
                     replaced |-> null, props |-> [label \in TransferLabels |-> null]]
  /\ nChan = 0
  /\ chanLabels = <<>>
  /\ created = <<>>

InitWith(maxK) ==
  /\ InfoFresh
  /\ ObjectsInit(maxK)

Init == InitWith(MaxPorts)

Frame == UNCHANGED <<envVars, peerVars, infoVars, now, opens, userConnects, wasReset>>

(***************************************************************************)
(* The application's calls.                                                *)
(***************************************************************************)
\* connect(), for the first time (limit 1) or again.
Connect(limit, sockets) ==
  /\ userConnects < limit
  /\ Len(io) < sockets
  /\ Becomes(connect(Self))
  /\ userConnects' = userConnects + 1
  /\ UNCHANGED <<envVars, peerVars, infoVars, now, opens, wasReset>>

Disconnect ==
  /\ _socket(Self) > 0
  /\ io[Len(io)].phase \in {"opening", "open", "retrying"}
  /\ Becomes(disconnect(Self))
  /\ Frame

Reset ==
  /\ ~wasReset
  /\ Becomes(reset(Self, hasWebSocket))
  /\ wasReset' = TRUE
  /\ UNCHANGED <<envVars, peerVars, infoVars, now, opens, userConnects>>

\* send(message) with a message of a must-queue type.
SendQueueable(type, limit) ==
  /\ InTypesToQueue(type)
  /\ nMsg < limit
  /\ Becomes(send([Self EXCEPT !.nMsg = nMsg + 1], [id |-> nMsg + 1, type |-> type], now))
  /\ Frame

\* send(message) with a message of any other type.
SendDirect(type, limit) ==
  /\ ~InTypesToQueue(type)
  /\ nDirect < limit
  /\ Becomes(send([Self EXCEPT !.nDirect = nDirect + 1], [id |-> nDirect + 1, type |-> type], now))
  /\ Frame

(***************************************************************************)
(* The clock and the timer.                                                *)
(***************************************************************************)
Advance(ticks) ==
  /\ now + ClockStep <= interval + ticks * ClockStep
  /\ now' = now + ClockStep
  /\ Becomes(Self)
  /\ UNCHANGED <<envVars, peerVars, infoVars, opens, userConnects, wasReset>>

\* The setTimeout callback runs, at its time or later.
Drain ==
  /\ due # 0
  /\ now >= due
  /\ Becomes(delayFn([Self EXCEPT !.due = 0], now))
  /\ Frame

(***************************************************************************)
(* socket.io-client's events on socket k, delivered to the handlers that   *)
(* are subscribed to it.  A socket that fails to open emits connect_error  *)
(* and starts reconnecting: reconnect_attempt up to reconnectionAttempts   *)
(* times, each followed by reconnect (success) or connect_error and        *)
(* reconnect_error, and reconnect_failed when the attempts are used up.    *)
(***************************************************************************)
Phase(s, k, phase, tries) == [s EXCEPT !.io = [@ EXCEPT ![k] = [@ EXCEPT !.phase = phase, !.tries = tries]]]

Sockets == 1..Len(io)

SocketConnectError(k) ==
  /\ io[k].on
  /\ \/ io[k].phase = "opening"
     \/ io[k].phase = "retrying" /\ io[k].tries > 0
  /\ Becomes(onConnectError(Phase(Self, k, "retrying", io[k].tries)))
  /\ Frame

SocketReconnectAttempt(k) ==
  /\ io[k].on
  /\ io[k].phase = "retrying"
  /\ io[k].tries < retriesMax
  /\ Becomes(onReconnectAttempt(Phase(Self, k, "retrying", io[k].tries + 1)))
  /\ Frame

SocketReconnectError(k) ==
  /\ io[k].on
  /\ io[k].phase = "retrying"
  /\ io[k].tries > 0
  /\ Becomes(onReconnectError(Self))
  /\ Frame

SocketReconnectFailed(k, sockets) ==
  /\ io[k].on
  /\ io[k].phase = "retrying"
  /\ io[k].tries = retriesMax
  /\ LET after == onReconnectFailed(Phase(Self, k, "failed", 0))
     IN /\ Len(after.io) <= sockets
        /\ Becomes(after)
  /\ Frame

SocketConnect(k) ==
  /\ io[k].on
  /\ io[k].phase = "opening"
  /\ opens < MaxOpens
  /\ Becomes(connectHandler(Phase(Self, k, "open", 0)))
  /\ opens' = opens + 1
  /\ UNCHANGED <<envVars, peerVars, infoVars, now, userConnects, wasReset>>

SocketReconnect(k) ==
  /\ io[k].on
  /\ io[k].phase = "retrying"
  /\ io[k].tries > 0
  /\ opens < MaxOpens
  /\ Becomes(connectHandler(Phase(Self, k, "open", 0)))
  /\ opens' = opens + 1
  /\ UNCHANGED <<envVars, peerVars, infoVars, now, userConnects, wasReset>>

SocketDisconnect(k) ==
  /\ io[k].on
  /\ io[k].phase = "open"
  /\ Becomes(onDisconnect(Phase(Self, k, "retrying", 0)))
  /\ Frame

SocketEvent(sockets) ==
  \/ \E k \in Sockets : SocketConnectError(k)
  \/ \E k \in Sockets : SocketReconnectAttempt(k)
  \/ \E k \in Sockets : SocketReconnectError(k)
  \/ \E k \in Sockets : SocketReconnectFailed(k, sockets)
  \/ \E k \in Sockets : SocketConnect(k)
  \/ \E k \in Sockets : SocketReconnect(k)
  \/ \E k \in Sockets : SocketDisconnect(k)

(***************************************************************************)
(* Spec: one connect() by the application, then socket.io's events, and    *)
(* disconnect() and reset() at any time.                                   *)
(***************************************************************************)
Next ==
  \/ Connect(1, MaxSockets)
  \/ Disconnect
  \/ Reset
  \/ SocketEvent(MaxSockets)

Spec == Init /\ [][Next]_vars

(***************************************************************************)
(* ReuseSpec: the application calls connect() again on the same object.    *)
(***************************************************************************)
ReuseNext ==
  \/ Connect(MaxUserConnects, MaxReuseSockets)
  \/ Disconnect
  \/ Reset
  \/ SocketEvent(MaxReuseSockets)

ReuseSpec == InitWith(MaxReusePorts) /\ [][ReuseNext]_vars

(***************************************************************************)
(* SendSpec: ReuseSpec with messages submitted, the clock and the timer.   *)
(***************************************************************************)
SendNext ==
  \/ Connect(MaxUserConnects, MaxReuseSockets)
  \/ SocketEvent(MaxReuseSockets)
  \/ \E type \in SendTypes : SendQueueable(type, MaxSends)
  \/ \E type \in SendTypes : SendDirect(type, MaxSends)
  \/ Advance(MaxTicks)
  \/ Drain

SendSpec == InitWith(MaxReusePorts) /\ [][SendNext]_vars

(***************************************************************************)
(* BatchSpec: the batching logic alone: the application submits messages,  *)
(* the clock advances, the timer fires.                                    *)
(***************************************************************************)
BatchNext ==
  \/ \E type \in SendTypes : SendQueueable(type, MaxMsgs)
  \/ \E type \in SendTypes : SendDirect(type, MaxDirect)
  \/ Advance(MaxBatchTicks)
  \/ Drain

BatchSpec == InitWith(0) /\ [][BatchNext]_vars

(***************************************************************************)
(* BurstSpec: one message is sent at the start (it resets the flush        *)
(* timestamp), then a burst of must-queue messages is submitted before the *)
(* interval is over and nothing else; the clock never passes a pending     *)
(* timer without the callback running.                                     *)
(***************************************************************************)
BurstFirst ==
  /\ nMsg + nDirect = 0
  /\ \E type \in SendTypes : SendQueueable(type, 1) \/ SendDirect(type, 1)

BurstSend ==
  /\ nMsg + nDirect > 0
  /\ timestamp = interval
  /\ now - timestamp < interval
  /\ \E type \in SendTypes : SendQueueable(type, MaxBurst)

TimelyAdvance ==
  /\ nMsg + nDirect > 0
  /\ due = 0 \/ now < due
  /\ Advance(MaxBurstTicks)

BurstNext ==
  \/ BurstFirst
  \/ BurstSend
  \/ TimelyAdvance
  \/ Drain

BurstSpec == InitWith(0) /\ [][BurstNext]_vars

(***************************************************************************)
(* InstanceSpec: a second SkylinkSocket is constructed while the first is  *)
(* in use.  _connection and _messaging are objects of the prototype: no    *)
(* constructor or method assigns self._connection or self._messaging, so   *)
(* every object reads and writes the same two objects, whose fields are    *)
(* port, transport, transportFallback, retriesCurrent, queue, timestamp    *)
(* and timer.  connected, dead and _socket are assigned on the object.     *)
(***************************************************************************)
\* new SkylinkSocket(): the constructor runs this.reset(), which assigns the
\* fields of the prototype's _connection.
Construct ==
  /\ instances < MaxInstances
  /\ instances' = instances + 1
  /\ Becomes(reset(Self, hasWebSocket))
  /\ UNCHANGED <<hasWebSocket, configured, peerVars, infoVars, now, opens, userConnects, wasReset>>

InstanceNext ==
  \/ Connect(1, MaxReuseSockets)
  \/ SocketEvent(MaxReuseSockets)
  \/ \E type \in SendTypes : SendQueueable(type, MaxInstanceSends)
  \/ Construct

InstanceSpec == InitWith(MaxReusePorts) /\ [][InstanceNext]_vars

(***************************************************************************)
(* Peer.  com is the Peer object; the RTCPeerConnection objects made by    *)
(* com.connect live in pcs.  An object is a record of the fields bind      *)
(* sets, the description the primitive has applied and the candidates      *)
(* handed to its addIceCandidate.                                          *)
(***************************************************************************)
\* What no Peer operation touches: the SkylinkSocket and the clock.
SocketFrame ==
  UNCHANGED <<connVars, msgVars, envVars, infoVars, now, opens, userConnects, wasReset>>

\* new window.RTCPeerConnection(com.config, constraints): the primitive's own
\* signalingState is "stable" in a new object.
NewPeerConnection ==
  [queueCandidate |-> <<>>, newSignalingState |-> "", signalingState |-> "stable",
   remoteDescription |-> "none", added |-> <<>>]

\* com.bind: the fields it sets on bindPeer (the handlers it installs are the
\* actions below); com.RTCPeerConnection is not assigned.
bind(bindPeer) ==
  [bindPeer EXCEPT !.queueCandidate = <<>>, !.newSignalingState = "new"]

\* ICE.addCandidate(bindPeer, received): a candidate is put in the buffer until the
\* remote description is applied and handed to the primitive afterwards.
ICE_addCandidate(bindPeer, received) ==
  IF bindPeer.remoteDescription = "none"
  THEN [bindPeer EXCEPT !.queueCandidate = Append(@, received)]
  ELSE [bindPeer EXCEPT !.added = Append(@, received)]

\* com.onIceCandidate(event, bindPeer): event.candidate || event
onIceCandidate(event, bindPeer) ==
  LET received == IF event.candidate # null
                  THEN [kind |-> "candidate", id |-> event.candidate]
                  ELSE [kind |-> "event", id |-> event.id]
  IN ICE_addCandidate(bindPeer, received)

\* com.connect(constraints)
PeerConnect ==
  /\ Len(pcs) < MaxPeerConnections
  /\ pcs' = Append(pcs, bind(NewPeerConnection))
  /\ thrown' = FALSE
  /\ UNCHANGED <<RTCPeerConnection, nCand, negotiationVars, channelVars>>
  /\ SocketFrame

\* bindPeer.onicecandidate fires on the i-th bound object, with a candidate or,
\* when gathering is over, with none.
IceCandidate(i, last) ==
  /\ i \in 1..Len(pcs)
  /\ nCand < MaxCandidates
  /\ nCand' = nCand + 1
  /\ LET event == [id |-> nCand', candidate |-> IF last THEN null ELSE nCand']
     IN pcs' = [pcs EXCEPT ![i] = onIceCandidate(event, @)]
  /\ thrown' = FALSE
  /\ UNCHANGED <<RTCPeerConnection, negotiationVars, channelVars>>
  /\ SocketFrame

\* bindPeer.onsignalingstatechange: the tracked state takes the primitive's.
onsignalingstatechange(bindPeer) ==
  [bindPeer EXCEPT !.newSignalingState = bindPeer.signalingState]

\* com.setRemoteDescription(remoteSdp): com.RTCPeerConnection.setRemoteDescription
\* is a TypeError while com.RTCPeerConnection is null; otherwise the primitive
\* applies the description (an offer takes it to have-remote-offer, an answer
\* back to stable), fires signalingstatechange, and the success callback sets
\* newSignalingState for an answer.
setRemoteDescription(objects, type) ==
  [objects EXCEPT ![RTCPeerConnection] =
     LET applied == [@ EXCEPT !.remoteDescription = type,
                              !.signalingState = IF type = "offer" THEN "have-remote-offer"
                                                 ELSE "stable"]
         notified == onsignalingstatechange(applied)
     IN [notified EXCEPT !.newSignalingState =
                            IF type = "answer" THEN "have-remote-answer" ELSE @]]

SetRemoteDescription(type) ==
  /\ remoteCalls < MaxRemoteCalls
  /\ remoteCalls' = remoteCalls + 1
  /\ IF RTCPeerConnection = null
     THEN thrown' = TRUE /\ pcs' = pcs
     ELSE thrown' = FALSE /\ pcs' = setRemoteDescription(pcs, type)
  /\ UNCHANGED <<RTCPeerConnection, nCand, readyState, invoked, pending, channelVars>>
  /\ SocketFrame

PeerNext ==
  \/ PeerConnect
  \/ \E i \in 1..MaxPeerConnections, last \in BOOLEAN : IceCandidate(i, last)
  \/ \E type \in {"offer", "answer"} : SetRemoteDescription(type)

PeerSpec == InitWith(0) /\ [][PeerNext]_vars

(***************************************************************************)
(* Peer: the negotiation methods.  Each hands its callbacks to a method of *)
(* com.RTCPeerConnection; while that field is null the call is a TypeError *)
(* and no callback is registered.  No method assigns com.readyState.       *)
(***************************************************************************)
\* com.RTCPeerConnection.<method>(..., success, failure)
CallPrimitive(method) ==
  IF RTCPeerConnection = null
  THEN thrown' = TRUE /\ pending' = pending
  ELSE thrown' = FALSE /\ pending' = Append(pending, method)

Negotiate(method) ==
  /\ Len(invoked) < MaxNegotiationCalls
  /\ invoked' = Append(invoked, method)
  /\ CallPrimitive(method)
  /\ UNCHANGED <<RTCPeerConnection, readyState, remoteCalls, iceVars, channelVars>>
  /\ SocketFrame

\* com.createOffer()
CreateOffer == Negotiate("createOffer")

\* com.createAnswer()
CreateAnswer == Negotiate("createAnswer")

\* com.setLocalDescription(localDescription)
SetLocalDescription == Negotiate("setLocalDescription")

NegotiationNext ==
  \/ PeerConnect
  \/ CreateOffer
  \/ CreateAnswer
  \/ SetLocalDescription
  \/ \E type \in {"offer", "answer"} : SetRemoteDescription(type)

NegotiationSpec == InitWith(0) /\ [][NegotiationNext]_vars

(***************************************************************************)
(* Peer: inbound data channels.                                            *)
(***************************************************************************)
\* new DataChannel(received, null, callback): the wrapper keeps the label of the
\* channel it wraps.
DataChannel(received) == [id |-> received.id, label |-> received.label]

\* com.onDataChannel as it would be if it kept every channel in the transfer mapping
\* and made the first channel of any label the main one.
onDataChannelFirstIsMain(dc, event) ==
  LET received == IF event.channel # <<>> THEN event.channel[1] ELSE event
      channel == DataChannel(received)
  IN IF dc.main = null
     THEN [dc EXCEPT !.main = channel.id]
     ELSE IF channel.label \in TransferLabels
          THEN [dc EXCEPT !.transfers[channel.label] = channel.id]
          ELSE dc

\* com.onDataChannel(event): event.channel || event
onDataChannel(dc, event) ==
  LET received == IF event.channel # <<>> THEN event.channel[1] ELSE event
      channel == DataChannel(received)
  IN IF channel.label = "main"
     THEN [dc EXCEPT !.main = channel.id]
     ELSE [dc EXCEPT !.transfers[channel.label] = channel.id]

\* bindPeer.ondatachannel fires on a bound object, with the channel in the event or
\* (older browsers) with the channel as the event; an event's channel field is the
\* sequence of the one channel it carries, empty when it carries none.
OnDataChannel(label, wrapped) ==
  /\ Len(pcs) > 0
  /\ nChan < MaxChannels
  /\ nChan' = nChan + 1
  /\ chanLabels' = Append(chanLabels, label)
  /\ LET received == [id |-> nChan', label |-> label, channel |-> <<>>]
         event == IF wrapped THEN [channel |-> <<received>>] ELSE received
     IN datachannels' = onDataChannel(datachannels, event)
  /\ thrown' = FALSE
  /\ UNCHANGED <<RTCPeerConnection, iceVars, negotiationVars, created>>
  /\ SocketFrame

ChannelNext ==
  \/ PeerConnect
  \/ \E label \in TransferLabels \cup {"main"}, wrapped \in BOOLEAN : OnDataChannel(label, wrapped)

ChannelSpec == InitWith(0) /\ [][ChannelNext]_vars

(***************************************************************************)
(* Peer: outbound data channels.  com.createDataChannel assigns the new    *)
(* wrapper to com.datachannels.main or to com.datachannels[transferId].    *)
(***************************************************************************)
TransferIds == TransferLabels \cup {"", "main", "transfers"}

\* com.createDataChannel(transferId), channel being the new DataChannel wrapper.
\* com.datachannels[transferId] is the main slot for "main", the place of the
\* transfers mapping for "transfers" (the mapping and its entries are gone), and a
\* property of com.datachannels itself for any other key.
createDataChannel(dc, transferId, channel) ==
  IF transferId = ""
  THEN [dc EXCEPT !.main = channel]
  ELSE IF transferId = "main"
  THEN [dc EXCEPT !.main = channel]
  ELSE IF transferId = "transfers"
  THEN [dc EXCEPT !.transfers = [label \in TransferLabels |-> null], !.replaced = channel]
  ELSE [dc EXCEPT !.props[transferId] = channel]

\* The wrappers made by createDataChannel are numbered after those of the inbound
\* channels.
CreateDataChannel(transferId) ==
  /\ Len(created) < MaxCreated
  /\ created' = Append(created, transferId)
  /\ datachannels' = createDataChannel(datachannels, transferId, MaxChannels + Len(created'))
  /\ thrown' = FALSE
  /\ UNCHANGED <<RTCPeerConnection, iceVars, negotiationVars, nChan, chanLabels>>
  /\ SocketFrame

CreateNext ==
  \/ PeerConnect
  \/ \E label \in TransferLabels \cup {"main"}, wrapped \in BOOLEAN : OnDataChannel(label, wrapped)
  \/ \E transferId \in TransferIds : CreateDataChannel(transferId)

CreateSpec == InitWith(0) /\ [][CreateNext]_vars

(***************************************************************************)
(* Skylink.prototype.getPeerInfo.  A value of this._user is null or an     *)
(* object whose sid may be empty (not in a room yet); what is stored under *)
(* a peer ID is an object or nothing, and nothing is stored before the     *)
(* user has a sid.  The result is the self information built from the      *)
(* stream settings, the stored object, or null.                            *)
(***************************************************************************)
SelfId == "self"

Users ==
  {[isNull |-> TRUE, sid |-> ""], [isNull |-> FALSE, sid |-> ""], [isNull |-> FALSE, sid |-> SelfId]}

PeerIdArguments ==
  {[type |-> "undefined", value |-> ""], [type |-> "number", value |-> "42"]}
    \cup {[type |-> "string", value |-> v] : v \in PeerIds \cup {SelfId, "unknown"}}

getPeerInfo(u, informations, id) ==
  LET isNotSelf == IF ~u.isNull /\ u.sid # ""
                   THEN ~(id.type = "string" /\ id.value = u.sid)
                   ELSE FALSE
  IN IF id.type = "string" /\ isNotSelf
     THEN LET typeofPeerInfo == IF id.value \in DOMAIN informations
                                THEN informations[id.value]
                                ELSE "absent"
          IN IF typeofPeerInfo = "object"
             THEN [kind |-> "peer", of |-> id.value]
             ELSE [kind |-> "null", of |-> ""]
     ELSE [kind |-> "self", of |-> ""]

GetPeerInfo ==
  /\ returned.kind = "none"
  /\ returned' = getPeerInfo(user, peerInformations, peerId)
  /\ UNCHANGED <<user, peerInformations, peerId>>
  /\ UNCHANGED <<connVars, msgVars, envVars, peerVars, now, opens, userConnects, wasReset>>

InfoInit ==
  /\ user \in Users
  /\ peerInformations \in [PeerIds -> {"absent", "object"}]
  /\ (user.isNull \/ user.sid = "") => \A id \in PeerIds : peerInformations[id] = "absent"
  /\ peerId \in PeerIdArguments
  /\ returned = [kind |-> "none", of |-> ""]
  /\ ObjectsInit(0)
  /\ hasWebSocket
  /\ protocol = "https"

InfoNext == GetPeerInfo

InfoSpec == InfoInit /\ [][InfoNext]_vars

(***************************************************************************)
(* Claims about the reconnection campaign.                                 *)
(***************************************************************************)
\* The configured port list of the protocol in use, and the connect attempts a
\* campaign over it makes: every port under WebSocket (when the browser has it),
\* then every port under Polling.
k == Len(configured)

Expected ==
  IF hasWebSocket
  THEN [i \in 1..(2 * k) |-> IF i <= k THEN <<"WebSocket", configured[i]>>
                                        ELSE <<"Polling", configured[i - k]>>]
  ELSE [i \in 1..k |-> <<"Polling", configured[i]>>]

IsPrefix(a, b) == Len(a) <= Len(b) /\ \A i \in 1..Len(a) : a[i] = b[i]

NoRepeat(a) == \A i, j \in 1..Len(a) : a[i] = a[j] => i = j

Alive(sock) == sock.on /\ sock.phase \in {"opening", "open", "retrying"}

Fired(name) == \E i \in 1..Len(emitted) : emitted[i].name = name

\* The socket of the last port under the fallback transport has failed.
LastPortFailed ==
  /\ k > 0
  /\ Len(tried) = Len(Expected)
  /\ io[Len(io)].phase = "failed"

\* C1: from a fresh transport with a port list of length k >= 1 whose connection
\* attempts end in reconnect_failed (one connect() by the application, no reset()),
\* once the last port under Polling has failed dead is true,
\* connectError(-3) has fired exactly once (and never before), and nothing connects
\* afterwards: no socket is alive, no connectRetry fires, and the attempts made are
\* exactly the campaign's.
C1_TerminalExhaustion ==
  ~wasReset =>
    /\ LastPortFailed => dead
    /\ terminalErrors = (IF dead THEN 1 ELSE 0)
    /\ dead => /\ LastPortFailed
               /\ tried = Expected
               /\ ~Fired("connectRetry")
               /\ \A i \in 1..Len(io) : ~Alive(io[i])

C1_Witness ==
  /\ ~wasReset
  /\ hasWebSocket
  /\ k = MaxPorts
  /\ dead
  /\ Len(tried) = 2 * MaxPorts
  /\ emitted[Len(emitted)] = Ev("connectError", -3, "Polling")

\* C2: in a campaign (one connect(), no reset(), a browser with WebSocket) no
\* <<transport kind, port>> pair is attempted twice and, for a non-empty port list,
\* the attempts follow the list under WebSocket and then under Polling.
C2_ExhaustionOrder ==
  (~wasReset /\ hasWebSocket) =>
    /\ NoRepeat(tried)
    /\ k > 0 => IsPrefix(tried, Expected)

C4_DeadRejectsSends == dead => written = <<>>

(***************************************************************************)
(* Claims about the batching of outbound messages.                         *)
(***************************************************************************)
\* The messages a frame handed to fn carries, and their submission numbers.
MsgsOf(frame) == IF frame.type = "group" THEN frame.lists ELSE <<frame>>

IdsOf(list) == [i \in 1..Len(list) |-> list[i].id]

Range(a, b) == [i \in 1..(b - a + 1) |-> a + (i - 1)]

Min(a, b) == IF a < b THEN a ELSE b

\* In BurstSpec: the submission number of the burst's first message (the message
\* sent at the start has number 1 when it is a must-queue one) and the burst's size.
FirstId == IF nDirect = 1 THEN 1 ELSE 2

BurstSize == nMsg - (FirstId - 1)

\* No timer callback is due and not yet run.
DrainRan == ~(due # 0 /\ now >= due)

\* C5: a burst of n must-queue messages submitted less than one interval after a
\* message went out at once (so that all n are queued) leaves as
\* Group envelopes on the successive interval ticks and only there: the j-th tick
\* hands over messages 16(j-1)+1 .. min(16j, n) of the burst, in submission order,
\* while 16(j-1) < n, and nothing afterwards; once the j-th callback has run the
\* queue holds exactly the burst's messages after the first 16j.
BurstEnvelopes(first, size) ==
  /\ \A i \in 1..Len(handed) :
        handed[i].type = "group" => \E j \in 1..MaxBurstTicks : now = interval + j * interval
  /\ \A j \in 1..MaxBurstTicks :
        now = interval + j * interval =>
          /\ handed # <<>> =>
               /\ throughput * (j - 1) < size
               /\ Len(handed) = 1
               /\ handed[1].type = "group"
               /\ IdsOf(handed[1].lists) =
                    Range(first + throughput * (j - 1),
                          first + Min(throughput * j, size) - 1)
          /\ DrainRan =>
               IdsOf(queue) = Range(first + Min(throughput * j, size),
                                    first + size - 1)

C6_QueuedMessageIsDrained == queue # <<>> => due # 0

\* C7: a must-queue message is handed to fn only when every must-queue message
\* submitted before it has been handed over already or stands before it in the same
\* Group.
C7_SubmissionOrder ==
  \A i \in 1..Len(handed) :
    LET msgs == MsgsOf(handed[i])
    IN \A a \in 1..Len(msgs) :
         InTypesToQueue(msgs[a].type) =>
           /\ \A b \in 1..Len(msgs) : a < b => msgs[a].id < msgs[b].id
           /\ \A q \in 1..Len(queue) : msgs[a].id < queue[q].id

\* C8: a Group envelope carries between 1 and 16 messages.
C8_GroupSize ==
  \A i \in 1..Len(handed) :
    handed[i].type = "group" =>
      /\ Len(handed[i].lists) >= 1
      /\ Len(handed[i].lists) <= throughput

\* A Group of exactly 16 was cut from a longer queue.
C8_Witness ==
  /\ Len(handed) = 1
  /\ handed[1].type = "group"
  /\ Len(handed[1].lists) = throughput
  /\ queue # <<>>

\* C9: a message of a type outside typesToQueue is handed to fn at once and as
\* itself, whatever the queue holds, and it is neither put in the queue nor in a Group.
C9_Inv ==
  /\ \A q \in 1..Len(queue) : InTypesToQueue(queue[q].type)
  /\ \A i \in 1..Len(handed) :
       handed[i].type = "group" =>
         \A a \in 1..Len(handed[i].lists) : InTypesToQueue(handed[i].lists[a].type)

C9_Step ==
  nDirect' = nDirect + 1 =>
    /\ Len(handed') = 1
    /\ handed'[1].id = nDirect'
    /\ ~InTypesToQueue(handed'[1].type)
    /\ queue' = queue
    /\ timestamp' = now

C9_ImmediateBypass == []C9_Inv /\ [][C9_Step]_vars

\* A message of another type went out at once while must-queue messages were waiting.
C9_Witness ==
  /\ queue # <<>>
  /\ Len(handed) = 1
  /\ ~InTypesToQueue(handed[1].type)
  /\ handed[1].type # "group"

(***************************************************************************)
(* Claims about the Peer.                                                  *)
(***************************************************************************)
\* C10: once setRemoteDescription has been called and has come to its end, the
\* candidates received before it have left the buffer of every bound
\* RTCPeerConnection object and have been handed to addIceCandidate.
C10_BufferedCandidatesApplied ==
  remoteCalls > 0 =>
    \A i \in 1..Len(pcs) : pcs[i].queueCandidate = <<>>

(***************************************************************************)
(* Claims about the subscriptions on the connection objects.               *)
(***************************************************************************)
\* C13: at most one connection object can deliver events to the handlers of
\* _listenToEvents: of the sockets made so far at most one is both subscribed and
\* live (opening, open or retrying).
C13_SingleSubscribedSocket ==
  Cardinality({i \in 1..Len(io) : Alive(io[i])}) <= 1

(***************************************************************************)
(* Claims about the negotiation of the Peer.                               *)
(***************************************************************************)
\* C14: when offer generation, answer generation or the application of a local or
\* remote description has failed, the session's connection state is failed.
C14_FailureMovesToFailed == thrown => readyState = "failed"

\* C20: the connection state follows the negotiation: once createOffer() has been
\* invoked on the session it is no longer new.
C20_OfferingAfterCreateOffer ==
  (\E i \in 1..Len(invoked) : invoked[i] = "createOffer") => readyState # "new"

(***************************************************************************)
(* Claims about the not-connected rejection of send().                     *)
(***************************************************************************)
\* C15: what the batching logic hands over (a message or a Group) is written to the
\* socket exactly when a connection object exists and connected is true at that
\* moment, and otherwise nothing is written; connected becomes true only in the
\* handler of a connect or reconnect event, and it is false after the handler of a
\* disconnect event and after every connect() call.
C15_Inv == written = (IF Len(io) > 0 /\ connected THEN handed ELSE <<>>)

C15_Step ==
  /\ (~connected /\ connected') => opens' = opens + 1
  /\ Len(io') > Len(io) => ~connected'
  /\ \A i \in 1..Len(io) :
       (io[i].on /\ io[i].phase = "open" /\ io'[i].on /\ io'[i].phase # "open") => ~connected'

C15_WrittenOnlyWhenConnected == []C15_Inv /\ [][C15_Step]_vars

\* A message was written by a connected transport that has made more than one
\* connection object.
C15_Witness ==
  /\ written # <<>>
  /\ connected
  /\ Len(io) > 1

(***************************************************************************)
(* Claims about the data channels of the Peer.                             *)
(***************************************************************************)
\* The last channel received with the label, null when there was none.
LastChannel(label) ==
  LET ids == {i \in 1..Len(chanLabels) : chanLabels[i] = label}
  IN IF ids = {} THEN null ELSE CHOOSE i \in ids : \A other \in ids : other <= i

\* C16: after any sequence of inbound data-channel events the main channel is the
\* last channel received with the label "main" (none if there was none) and the
\* transfer mapping holds, under each other label, the last channel received with
\* that label: a "main" channel never enters the transfer mapping, another channel
\* never becomes the main one, and a later channel replaces an earlier one of its slot.
C16_DataChannelSlots ==
  /\ datachannels.main = LastChannel("main")
  /\ \A label \in TransferLabels : datachannels.transfers[label] = LastChannel(label)

\* A later channel has replaced an earlier one in a transfer slot while a main
\* channel is set.
C16_Witness ==
  /\ Len(chanLabels) = 3
  /\ chanLabels[1] = chanLabels[3]
  /\ chanLabels[1] \in TransferLabels
  /\ chanLabels[2] = "main"
  /\ datachannels.main = 2
  /\ datachannels.transfers[chanLabels[1]] = 3

(***************************************************************************)
(* Claims about the peer information.                                      *)
(***************************************************************************)
\* The argument is the ID of a remote peer whose information is stored.
KnownPeer ==
  /\ peerId.type = "string"
  /\ peerId.value \in PeerIds
  /\ peerInformations[peerId.value] = "object"

\* C17: getPeerInfo(peerId) returns the stored information of the peer when peerId
\* is the ID of a known remote peer, and the self information in every other case
\* (no peer ID, or an ID that is not one of a known remote peer).
C17_GetPeerInfo ==
  returned.kind # "none" =>
    returned = (IF KnownPeer THEN [kind |-> "peer", of |-> peerId.value]
                             ELSE [kind |-> "self", of |-> ""])

(***************************************************************************)
(* Claims about the interval test of the batching.                         *)
(***************************************************************************)
\* C19: a must-queue message is appended to the queue and not sent exactly when
\* less than the interval has elapsed since the last flush; otherwise (the first
\* send ever included) it is handed over at once as itself and the queue is left
\* alone; and whenever something is handed over, at once or by a drain, the flush
\* timestamp becomes the current time.
C19_Step ==
  /\ nMsg' = nMsg + 1 =>
       IF now - timestamp < interval
       THEN /\ Len(queue') = Len(queue) + 1
            /\ queue'[Len(queue')].id = nMsg'
            /\ SubSeq(queue', 1, Len(queue)) = queue
            /\ handed' = <<>>
            /\ timestamp' = timestamp
       ELSE /\ queue' = queue
            /\ Len(handed') = 1
            /\ handed'[1].type # "group"
            /\ InTypesToQueue(handed'[1].type)
            /\ handed'[1].id = nMsg'
            /\ timestamp' = now
  /\ handed' # <<>> => timestamp' = now

C19_IntervalTest == [][C19_Step]_vars

\* A must-queue message, not the first one submitted, went out at once and as
\* itself because the interval had elapsed since the last flush.
C19_Witness ==
  /\ nMsg > 2
  /\ Len(handed) = 1
  /\ handed[1].type # "group"
  /\ InTypesToQueue(handed[1].type)
  /\ handed[1].id = nMsg
  /\ timestamp = now
  /\ now > interval

(***************************************************************************)
(* Claims about the signaling state a session tracks.                      *)
(***************************************************************************)
\* C21: once no callback of a primitive call is outstanding, the signaling state
\* the session tracks on a peer connection (newSignalingState) equals the
\* primitive's own signalingState.
C21_TrackedEqualsPrimitive ==
  pending = <<>> =>
    \A i \in 1..Len(pcs) : pcs[i].newSignalingState = pcs[i].signalingState

(***************************************************************************)
(* Claims about the error codes and the retry count.                       *)
(***************************************************************************)
\* C23: connectError with code 0 is fired only while the retry count is 0; a
\* reconnect_attempt event adds one to the retry count and fires code -4; a
\* reconnect_error and a reconnect_failed event fire code -1; the retry count is
\* unchanged by a step that changes the port or the transport other than reset(),
\* and it goes down only in reset(), to 0.
Codes(events) == [i \in 1..Len(events) |-> IF events[i].name = "connectError" THEN events[i].code ELSE 1]

C23_Step ==
  /\ (\E i \in 1..Len(emitted') : Codes(emitted')[i] = 0) => retriesCurrent = 0
  /\ \A n \in 1..Len(io) :
       /\ io'[n].tries = io[n].tries + 1 =>
            /\ retriesCurrent' = retriesCurrent + 1
            /\ Codes(emitted') = <<-4>>
       /\ SocketReconnectError(n) => Codes(emitted') = <<-1>>
       /\ (io[n].phase = "retrying" /\ io'[n].phase = "failed") =>
            /\ Codes(emitted')[1] = -1
            /\ retriesCurrent' = retriesCurrent
  /\ retriesCurrent' > retriesCurrent => Codes(emitted') = <<-4>>
  /\ ((port' # port \/ transport' # transport) /\ wasReset' = wasReset) =>
       retriesCurrent' = retriesCurrent
  /\ retriesCurrent' < retriesCurrent => (~wasReset /\ wasReset' /\ retriesCurrent' = 0)

C23_ErrorCodes == [][C23_Step]_vars

\* A reconnect attempt was counted on the fallback transport after every attempt of
\* the primary transport had been counted.
C23_Witness ==
  /\ transportFallback
  /\ ~wasReset
  /\ retriesCurrent > retriesMax
  /\ Codes(emitted) = <<-4>>

(***************************************************************************)
(* Claims about the channels the session creates.                          *)
(***************************************************************************)
\* C24: createDataChannel with an empty transferId changes the main channel only;
\* with any other transferId it puts the new channel in the transfer mapping under
\* that identifier and leaves the main channel and the mapping object as they were.
C24_Step ==
  Len(created') = Len(created) + 1 =>
    LET transferId == created'[Len(created')]
        channel == MaxChannels + Len(created')
    IN IF transferId = ""
       THEN datachannels' = [datachannels EXCEPT !.main = channel]
       ELSE /\ datachannels'.main = datachannels.main
            /\ datachannels'.replaced = datachannels.replaced
            /\ transferId \in DOMAIN datachannels'.transfers
            /\ datachannels'.transfers =
                 [datachannels.transfers EXCEPT ![transferId] = channel]

C24_CreateDataChannel == [][C24_Step]_vars

(***************************************************************************)
(* Claims about the drain timer.                                           *)
(***************************************************************************)
\* C25: while the queue is not empty a drain callback is pending, and the timer
\* handle is set exactly while a drain callback is pending.
C25_DrainScheduled ==
  /\ queue # <<>> => due # 0
  /\ timer <=> due # 0

(***************************************************************************)
(* Claims about separate transport objects.                                *)
(***************************************************************************)
\* C26: a newly constructed transport object has an empty queue, no timer, the
\* port cursor unset, the primary transport kind and a retry count of 0, and its
\* construction leaves these fields of the object already in use as they were.
C26_Step ==
  instances' = instances + 1 =>
    /\ queue' = <<>>
    /\ ~timer'
    /\ port' = 0
    /\ ~transportFallback'
    /\ retriesCurrent' = 0
    /\ UNCHANGED <<queue, timer, port, transport, transportFallback, retriesCurrent>>

C26_SeparateInstances == [][C26_Step]_vars

(***************************************************************************)
(* Claims about the peer connection a session holds.                       *)
(***************************************************************************)
\* C27: once connect() has run, the session holds the peer connection it made
\* last, and no negotiation call made after it ends in a TypeError.
C27_HoldsPrimitive ==
  Len(pcs) > 0 =>
    /\ RTCPeerConnection = Len(pcs)
    /\ ~thrown

(***************************************************************************)
(* Claims about the connectRetry event.                                    *)
(***************************************************************************)
\* C28: a reconnect that makes a new connection attempt fires exactly one
\* connectRetry event, as the last event before the attempt, and the event's
\* fallback kind is nonfallback exactly when the attempt uses the first port of
\* the list under the primary transport; otherwise it is the port fallback under
\* WebSocket and the long-polling fallback under Polling, with SSL for https and
\* NonSSL for http.
RetryKind(attempt) ==
  LET suffix == IF protocol' = "https" THEN "SSL" ELSE "NonSSL"
  IN IF ~transportFallback' /\ attempt[2] = At(ports'[protocol'], 0)
     THEN "nonfallback"
     ELSE IF attempt[1] = "WebSocket"
          THEN "fallbackPort" \o suffix
          ELSE "fallbackLongPolling" \o suffix

C28_Step ==
  (Len(tried') = Len(tried) + 1 /\ userConnects' = userConnects) =>
    /\ Cardinality({i \in 1..Len(emitted') : emitted'[i].name = "connectRetry"}) = 1
    /\ emitted'[Len(emitted')].name = "connectRetry"
    /\ emitted'[Len(emitted')].info = RetryKind(tried'[Len(tried')])

C28_ConnectRetryKind == [][C28_Step]_vars

====
